---------------------------- MODULE Spec2Model ----------------------------
(***************************************************************************)
(* Game of Life (atombear/game_of_life): the per-generation evolution      *)
(* engine of src/bin/main.rs and the pure helpers of src/utils.rs.         *)
(*                                                                         *)
(* Six specifications share the variables below:                           *)
(*   Spec      the run of main(): render, dispatch of one worker thread    *)
(*             per sub-grid, join, drop of the sender, drain-and-apply;    *)
(*   SpecFair  the same run without worker failures, fairly scheduled;     *)
(*   SpecFn    calls of count_neighbors and capture_moves on boards drawn  *)
(*             from bounded sets;                                          *)
(*   SpecLine  calls of count_neighbors on grids of one row or one column; *)
(*   SpecU8    calls of count_neighbors on binary boards and on boards of  *)
(*             arbitrary u8 values, with the outcome of each build;        *)
(*   SpecPart  calls of get_groups and get_subgrids on bounded arguments.  *)
(***************************************************************************)
EXTENDS Integers, Sequences, FiniteSets, TLC

VARIABLES
    rows,       \* data0.shape()[0]
    cols,       \* data0.shape()[1]
    brd,        \* the board behind data1: [cell -> u8]
    extents,    \* Vec<(usize, usize, usize, usize)>, fixed after startup
    iter,       \* the loop variable of `for iter in 0..50`
    pc,         \* where the main thread is
    handles,    \* Vec<JoinHandle>, as the sequence of worker ids pushed
    wstate,     \* per worker thread: unspawned, spawned, scanning, done, panicked
    pending,    \* per worker: the moves of capture_moves not yet sent
    readers,    \* the workers holding a read guard of the RwLock
    chan,       \* the mpsc channel: moves sent and not yet received
    snap,       \* history: the board each worker passed to capture_moves
    brdStart,   \* history: the board at the start of the current generation
    seqBrd,     \* history: the rule applied sequentially, once per generation
    applied,    \* history: the moves received and stored in this generation
    computed,   \* history: per worker, the list capture_moves returned to it
    frames,     \* history: the frames print_board has printed, <<iter, board>>
    fnCall,     \* SpecFn, SpecPart: the call made, with its arguments
    fnRet       \* SpecFn, SpecPart: what the call returned

vars == <<rows, cols, brd, extents, iter, pc, handles, wstate, pending,
          readers, chan, snap, brdStart, seqBrd, applied, computed, frames,
          fnCall, fnRet>>

---------------------------------------------------------------------------
(* Program constants.                                                      *)

NUM_ROW_GROUPS == 3

NUM_COL_GROUPS == 3

NUM_ITERS == 50

U8 == 256

---------------------------------------------------------------------------
(* Bounds of the model.                                                    *)

\* SpecFn: boards of at most this many cells (rows >= 2, cols >= 2).
MaxCells == 9

\* SpecPart: get_groups is called with num in 0..MaxNum.
MaxNum == 42

\* SpecPart: get_groups is called with num_groups in 1..MaxGroups.
MaxGroups == 6

\* SpecPart: get_subgrids is called with rows, cols in 0..MaxSide.
MaxSide == 15

\* Spec: the schedules below and the failures of worker threads are explored
\* in the first MaxGen generations of the run; in the later generations the
\* threads run one at a time, in spawn order, and none fails.
MaxGen == 2

\* Spec: in the schedules explored at most MaxRunning worker threads are
\* between the start and the end of their closure at a time, ...
MaxRunning == 2

\* ... and a thread starts while at most MaxOvertaken of the threads spawned
\* before it have not started yet (0: the threads start in spawn order; they
\* still send and end in any order).
MaxOvertaken == 0

\* Spec: at most MaxPanics worker threads panic in a run.
MaxPanics == 1

---------------------------------------------------------------------------
(* Boards.                                                                 *)

Cells(nr, nc) == (0 .. nr - 1) \X (0 .. nc - 1)

BinaryBoards(nr, nc) == [Cells(nr, nc) -> {0, 1}]

\* The array of the doc test of count_neighbors: array![[0,1,2],[3,4,5],[6,7,8]].
WeightBoard == [p \in Cells(3, 3) |-> 3 * p[1] + p[2]]

---------------------------------------------------------------------------
(* utils.rs: the neighbor evaluator.                                       *)

\* Mutant: the grid wraps around, every cell has 8 neighbours.
pos_arr_torus(nrows, ncols, r, c) ==
    LET up    == (r + nrows - 1) % nrows
        down  == (r + 1) % nrows
        left  == (c + ncols - 1) % ncols
        right == (c + 1) % ncols
    IN  << <<up, left>>, <<up, c>>, <<up, right>>, <<r, right>>,
           <<down, right>>, <<down, c>>, <<down, left>>, <<r, left>> >>

\* Mutant: the positions around (r, c) that lie inside the grid, and the
\* cell (r, c) itself.
pos_arr_with_self(nrows, ncols, r, c) ==
    LET InGrid(p) == p[1] \in 0 .. nrows - 1 /\ p[2] \in 0 .. ncols - 1
    IN  SelectSeq(<< <<r - 1, c - 1>>, <<r - 1, c>>, <<r - 1, c + 1>>,
                     <<r, c - 1>>, <<r, c>>, <<r, c + 1>>,
                     <<r + 1, c - 1>>, <<r + 1, c>>, <<r + 1, c + 1>> >>,
                  InGrid)

\* The array of positions count_neighbors hands to gather_board_values.
pos_arr(nrows, ncols, r, c) ==
    IF r = 0 /\ c = 0 THEN
        << <<0, 1>>, <<1, 0>>, <<1, 1>> >>
    ELSE IF r = 0 /\ c = ncols - 1 THEN
        << <<0, ncols - 2>>, <<1, ncols - 2>>, <<1, ncols - 1>> >>
    ELSE IF r = nrows - 1 /\ c = ncols - 1 THEN
        << <<nrows - 2, ncols - 1>>, <<nrows - 2, ncols - 2>>,
           <<nrows - 1, ncols - 2>> >>
    ELSE IF r = nrows - 1 /\ c = 0 THEN
        << <<nrows - 2, 0>>, <<nrows - 2, 1>>, <<nrows - 1, 1>> >>
    ELSE IF r = 0 THEN
        << <<0, c - 1>>, <<1, c - 1>>, <<1, c>>, <<1, c + 1>>, <<0, c + 1>> >>
    ELSE IF c = ncols - 1 THEN
        << <<r - 1, c>>, <<r - 1, c - 1>>, <<r, c - 1>>, <<r + 1, c - 1>>,
           <<r + 1, c>> >>
    ELSE IF r = nrows - 1 THEN
        << <<r, c - 1>>, <<r - 1, c - 1>>, <<r - 1, c>>, <<r - 1, c + 1>>,
           <<r, c + 1>> >>
    ELSE IF c = 0 THEN
        << <<r - 1, 0>>, <<r - 1, 1>>, <<r, 1>>, <<r + 1, 1>>, <<r + 1, 0>> >>
    ELSE
        << <<r - 1, c - 1>>, <<r - 1, c>>, <<r - 1, c + 1>>, <<r, c + 1>>,
           <<r + 1, c + 1>>, <<r + 1, c>>, <<r + 1, c - 1>>, <<r, c - 1>> >>

\* `ret += brd[[r0, c0]]` over pos_arr, left to right, in a u8 accumulator.
RECURSIVE gather_board_values(_, _)
gather_board_values(b, pa) ==
    IF pa = <<>> THEN 0
    ELSE (gather_board_values(b, SubSeq(pa, 1, Len(pa) - 1)) + b[pa[Len(pa)]]) % U8

\* Mutant: the cell itself is added to the sum of its neighbours.
count_neighbors_self(b, nrows, ncols, r, c) ==
    (gather_board_values(b, pos_arr(nrows, ncols, r, c)) + b[<<r, c>>]) % U8

count_neighbors(b, nrows, ncols, r, c) ==
    gather_board_values(b, pos_arr(nrows, ncols, r, c))

---------------------------------------------------------------------------
(* utils.rs: the transition scanner.                                       *)

\* The body of the loop of capture_moves for one cell: what it pushes.
\* Mutant: every cell is pushed with its next value, changed or not.
cell_moves_all(b, nrows, ncols, r, c) ==
    LET count == count_neighbors(b, nrows, ncols, r, c) IN
    IF b[<<r, c>>] = 1 /\ (count < 2 \/ count > 3) THEN << <<r, c, 0>> >>
    ELSE IF count = 3 THEN << <<r, c, 1>> >>
    ELSE << <<r, c, b[<<r, c>>]>> >>

\* Mutant: a birth is pushed only for a dead cell.
cell_moves_dead_only(b, nrows, ncols, r, c) ==
    LET count == count_neighbors(b, nrows, ncols, r, c) IN
    IF b[<<r, c>>] = 1 /\ (count < 2 \/ count > 3) THEN << <<r, c, 0>> >>
    ELSE IF b[<<r, c>>] = 0 /\ count = 3 THEN << <<r, c, 1>> >>
    ELSE <<>>

\* Mutant: a live cell with 3 live neighbours dies (count >= 3 for count > 3).
cell_moves_overcrowd(b, nrows, ncols, r, c) ==
    LET count == count_neighbors(b, nrows, ncols, r, c) IN
    IF b[<<r, c>>] = 1 /\ (count < 2 \/ count >= 3) THEN << <<r, c, 0>> >>
    ELSE IF count = 3 THEN << <<r, c, 1>> >>
    ELSE <<>>

\* Mutant: a birth is pushed with the count as its value.
cell_moves_count(b, nrows, ncols, r, c) ==
    LET count == count_neighbors(b, nrows, ncols, r, c) IN
    IF b[<<r, c>>] = 1 /\ (count < 2 \/ count > 3) THEN << <<r, c, 0>> >>
    ELSE IF count = 3 THEN << <<r, c, count>> >>
    ELSE <<>>

cell_moves(b, nrows, ncols, r, c) ==
    LET count == count_neighbors(b, nrows, ncols, r, c) IN
    IF b[<<r, c>>] = 1 /\ (count < 2 \/ count > 3) THEN << <<r, c, 0>> >>
    ELSE IF count = 3 THEN << <<r, c, 1>> >>
    ELSE <<>>

\* iproduct!(start_row..stop_row, start_col..stop_col): the k-th cell, k >= 0.
iproduct_at(start_row, start_col, stop_col, k) ==
    << start_row + (k \div (stop_col - start_col)),
       start_col + (k % (stop_col - start_col)) >>

iproduct_len(start_row, stop_row, start_col, stop_col) ==
    IF stop_row > start_row /\ stop_col > start_col
    THEN (stop_row - start_row) * (stop_col - start_col)
    ELSE 0

RECURSIVE capture_loop(_, _, _, _, _, _, _)
capture_loop(b, nrows, ncols, start_row, start_col, stop_col, n) ==
    IF n = 0 THEN <<>>
    ELSE LET p == iproduct_at(start_row, start_col, stop_col, n - 1) IN
         capture_loop(b, nrows, ncols, start_row, start_col, stop_col, n - 1)
             \o cell_moves(b, nrows, ncols, p[1], p[2])

capture_moves(b, nrows, ncols, start_row, stop_row, start_col, stop_col) ==
    capture_loop(b, nrows, ncols, start_row, start_col, stop_col,
                 iproduct_len(start_row, stop_row, start_col, stop_col))

---------------------------------------------------------------------------
(* utils.rs: the partitioner.                                              *)

\* One pass of `for _ in 0..num_groups`, st = [ret, rem].
RECURSIVE get_groups_loop(_, _, _, _)
get_groups_loop(num, num_groups, i, st) ==
    IF i >= num_groups THEN st.ret
    ELSE LET pushed == Append(st.ret, num \div num_groups) IN
         IF st.rem > 0
         THEN get_groups_loop(num, num_groups, i + 1,
                  [ret |-> [pushed EXCEPT ![Len(pushed)] = @ + 1],
                   rem |-> st.rem - 1])
         ELSE get_groups_loop(num, num_groups, i + 1,
                  [ret |-> pushed, rem |-> st.rem])

\* Mutant: the remainder is taken as the quotient.
get_groups_rem(num, num_groups) ==
    get_groups_loop(num, num_groups, 0,
        [ret |-> <<>>, rem |-> num \div num_groups])

get_groups(num, num_groups) ==
    get_groups_loop(num, num_groups, 0,
        [ret |-> <<>>, rem |-> num - num_groups * (num \div num_groups)])

\* Mutant: `col_first_idx += c_len` is left out, every column group starts
\* at column 0.
RECURSIVE subgrids_cols_noadvance(_, _, _, _, _)
subgrids_cols_noadvance(row_first_idx, r_len, col_groups, j, col_first_idx) ==
    IF j > Len(col_groups) THEN <<>>
    ELSE << <<row_first_idx, row_first_idx + r_len,
              col_first_idx, col_first_idx + col_groups[j]>> >>
         \o subgrids_cols_noadvance(row_first_idx, r_len, col_groups, j + 1,
                                    col_first_idx)

\* The inner loop `for c_len in &col_groups` from its j-th element on.
RECURSIVE subgrids_cols(_, _, _, _, _)
subgrids_cols(row_first_idx, r_len, col_groups, j, col_first_idx) ==
    IF j > Len(col_groups) THEN <<>>
    ELSE << <<row_first_idx, row_first_idx + r_len,
              col_first_idx, col_first_idx + col_groups[j]>> >>
         \o subgrids_cols(row_first_idx, r_len, col_groups, j + 1,
                          col_first_idx + col_groups[j])

\* The outer loop `for r_len in &row_groups` from its i-th element on.
RECURSIVE subgrids_rows(_, _, _, _)
subgrids_rows(row_groups, col_groups, i, row_first_idx) ==
    IF i > Len(row_groups) THEN <<>>
    ELSE subgrids_cols(row_first_idx, row_groups[i], col_groups, 1, 0)
         \o subgrids_rows(row_groups, col_groups, i + 1,
                          row_first_idx + row_groups[i])

\* Mutant: the columns are split by the row count.
get_subgrids_swapped(nrows, ncols) ==
    subgrids_rows(get_groups(nrows, NUM_ROW_GROUPS),
                  get_groups(nrows, NUM_COL_GROUPS), 1, 0)

get_subgrids(nrows, ncols) ==
    subgrids_rows(get_groups(nrows, NUM_ROW_GROUPS),
                  get_groups(ncols, NUM_COL_GROUPS), 1, 0)

---------------------------------------------------------------------------
(* Workers: one thread per element of extents, NUM_ROW_GROUPS *            *)
(* NUM_COL_GROUPS of them, numbered as extents is indexed.                 *)

Workers == 1 .. NUM_ROW_GROUPS * NUM_COL_GROUPS

NoBoard == [p \in {} |-> 0]

\* The variables of the run of main() while a pure function is called.
MainIdle ==
    /\ extents = <<>>
    /\ iter = 0
    /\ pc = "fn"
    /\ handles = <<>>
    /\ wstate = [w \in Workers |-> "unspawned"]
    /\ pending = [w \in Workers |-> <<>>]
    /\ readers = {}
    /\ chan = <<>>
    /\ snap = [w \in Workers |-> NoBoard]
    /\ brdStart = brd
    /\ seqBrd = brd
    /\ applied = <<>>
    /\ computed = [w \in Workers |-> <<>>]
    /\ frames = <<>>

mainVars == <<extents, iter, pc, handles, wstate, pending, readers, chan,
              snap, brdStart, seqBrd, applied, computed, frames>>

NoCall == [op |-> "none"]

---------------------------------------------------------------------------
(* SpecFn: count_neighbors and capture_moves called on a board.  The       *)
(* functions are pure, so each behaviour makes one call.                   *)

FnDims == {d \in (2 .. MaxCells) \X (2 .. MaxCells) : d[1] * d[2] <= MaxCells}

\* A 4 x 4 board whose only live cells are the 2 x 2 block at (r0, c0).
BlockBoard(r0, c0) ==
    [p \in Cells(4, 4) |->
        IF p[1] \in {r0, r0 + 1} /\ p[2] \in {c0, c0 + 1} THEN 1 ELSE 0]

InitFn ==
    /\ \/ \E d \in FnDims :
            /\ rows = d[1]
            /\ cols = d[2]
            /\ brd \in BinaryBoards(d[1], d[2])
       \/ /\ rows = 3
          /\ cols = 3
          /\ brd = WeightBoard
       \/ /\ rows = 4
          /\ cols = 4
          /\ \E r0 \in 0 .. 2, c0 \in 0 .. 2 : brd = BlockBoard(r0, c0)
    /\ MainIdle
    /\ fnCall = NoCall
    /\ fnRet = 0

CallCountNeighbors ==
    /\ pc = "fn"
    /\ fnCall = NoCall
    /\ \E r \in 0 .. rows - 1, c \in 0 .. cols - 1 :
        /\ fnCall' = [op |-> "count_neighbors", r |-> r, c |-> c,
                      reads |-> pos_arr(rows, cols, r, c)]
        /\ fnRet' = count_neighbors(brd, rows, cols, r, c)
    /\ UNCHANGED <<rows, cols, brd, mainVars>>

CallCaptureMoves ==
    /\ pc = "fn"
    /\ fnCall = NoCall
    /\ \E start_row \in 0 .. rows - 1, start_col \in 0 .. cols - 1 :
       \E stop_row \in start_row + 1 .. rows, stop_col \in start_col + 1 .. cols :
        /\ fnCall' = [op |-> "capture_moves",
                      start_row |-> start_row, stop_row |-> stop_row,
                      start_col |-> start_col, stop_col |-> stop_col]
        /\ fnRet' = capture_moves(brd, rows, cols,
                                  start_row, stop_row, start_col, stop_col)
    /\ UNCHANGED <<rows, cols, brd, mainVars>>

NextFn == CallCountNeighbors \/ CallCaptureMoves

SpecFn == InitFn /\ [][NextFn]_vars

---------------------------------------------------------------------------
(* SpecPart: get_groups and get_subgrids called on bounded arguments.      *)

InitPart ==
    /\ rows = 3
    /\ cols = 3
    /\ brd = WeightBoard
    /\ MainIdle
    /\ fnCall = NoCall
    /\ fnRet = 0

CallGetGroups ==
    /\ pc = "fn"
    /\ fnCall = NoCall
    /\ \E num \in 0 .. MaxNum, num_groups \in 1 .. MaxGroups :
        /\ fnCall' = [op |-> "get_groups", num |-> num,
                      num_groups |-> num_groups]
        /\ fnRet' = get_groups(num, num_groups)
    /\ UNCHANGED <<rows, cols, brd, mainVars>>

CallGetSubgrids ==
    /\ pc = "fn"
    /\ fnCall = NoCall
    /\ \E nrows \in 0 .. MaxSide, ncols \in 0 .. MaxSide :
        /\ fnCall' = [op |-> "get_subgrids", rows |-> nrows, cols |-> ncols]
        /\ fnRet' = get_subgrids(nrows, ncols)
    /\ UNCHANGED <<rows, cols, brd, mainVars>>

NextPart == CallGetGroups \/ CallGetSubgrids

SpecPart == InitPart /\ [][NextPart]_vars

---------------------------------------------------------------------------
(* Reference definitions the claims are stated against: the rule and the   *)
(* neighbourhood as the specification words them, not as the code          *)
(* computes them.                                                          *)

\* The up-to-8 positions around (r, c) that lie inside the grid.
Neighbourhood(nr, nc, r, c) ==
    {p \in Cells(nr, nc) :
        /\ p # <<r, c>>
        /\ p[1] - r \in {-1, 0, 1}
        /\ p[2] - c \in {-1, 0, 1}}

RECURSIVE SumOver(_, _)
SumOver(b, S) ==
    IF S = {} THEN 0
    ELSE LET p == CHOOSE q \in S : TRUE IN b[p] + SumOver(b, S \ {p})

\* B3/S23: the next value of a cell of value v with n live neighbours.
Successor(v, n) ==
    IF v = 1 /\ (n < 2 \/ n > 3) THEN 0
    ELSE IF v = 0 /\ n = 3 THEN 1
    ELSE v

LifeCell(b, nr, nc, p) ==
    Successor(b[p], SumOver(b, Neighbourhood(nr, nc, p[1], p[2])))

\* One generation of the rule over the whole board.
LifeStep(b, nr, nc) == [p \in Cells(nr, nc) |-> LifeCell(b, nr, nc, p)]

IsBinary(b) == \A p \in DOMAIN b : b[p] \in {0, 1}

SeqToSet(q) == {q[i] : i \in 1 .. Len(q)}

NoDuplicates(q) == \A i, j \in 1 .. Len(q) : q[i] = q[j] => i = j

\* The moves of list q written over board b, in the order of q.
RECURSIVE Overwrite(_, _)
Overwrite(b, q) ==
    IF q = <<>> THEN b
    ELSE LET mv == q[Len(q)] IN
         [Overwrite(b, SubSeq(q, 1, Len(q) - 1)) EXCEPT ![<<mv[1], mv[2]>>] = mv[3]]

RegionCells(start_row, stop_row, start_col, stop_col) ==
    (start_row .. stop_row - 1) \X (start_col .. stop_col - 1)

CaptureCalled == fnCall.op = "capture_moves"

CalledRegion ==
    RegionCells(fnCall.start_row, fnCall.stop_row,
                fnCall.start_col, fnCall.stop_col)

\* The live-neighbour count of cell p of brd, by the reference definition.
LiveAround(p) == SumOver(brd, Neighbourhood(rows, cols, p[1], p[2]))

---------------------------------------------------------------------------
(* Spec: the run of main() from the first pass of `for iter in 0..50`.     *)

\* A board of nr x nc cells whose live cells are those of `live`.
BoardOf(nr, nc, live) == [p \in Cells(nr, nc) |-> IF p \in live THEN 1 ELSE 0]

\* The boards the run is started on (the code does not fix src/board.csv):
\*   0 0 1    one birth (0,1), one death (0,2) and one live cell with 3 live
\*   1 0 1    neighbours (2,1) in the first generation, each in the sub-grid
\*   1 1 0    of another worker;
\*   0 0 0    one birth and two deaths in the first generation, two deaths
\*   0 0 1    in the second, an empty board from then on;
\*   1 1 0
\* and a 4 x 4 board whose first sub-grid, rows 0..2 x cols 0..2, holds two
\* live cells that both die, so that one worker has two moves to send, and
\* whose last sub-grid holds a lone live cell, (3, 3), that dies as well.
InitBoards ==
    { [rows |-> 3, cols |-> 3,
       live |-> {<<0, 2>>, <<1, 0>>, <<1, 2>>, <<2, 0>>, <<2, 1>>}],
      [rows |-> 3, cols |-> 3, live |-> {<<1, 2>>, <<2, 0>>, <<2, 1>>}],
      [rows |-> 4, cols |-> 4, live |-> {<<0, 0>>, <<0, 1>>, <<3, 3>>}] }

\* main.rs repeats the body of get_subgrids inline to build `extents`.
main_extents(nrows, ncols) == get_subgrids(nrows, ncols)

Init ==
    /\ \E ib \in InitBoards :
        /\ rows = ib.rows
        /\ cols = ib.cols
        /\ brd = BoardOf(ib.rows, ib.cols, ib.live)
    /\ extents = main_extents(rows, cols)
    /\ iter = 0
    /\ pc = "render"
    /\ handles = <<>>
    /\ wstate = [w \in Workers |-> "unspawned"]
    /\ pending = [w \in Workers |-> <<>>]
    /\ readers = {}
    /\ chan = <<>>
    /\ snap = [w \in Workers |-> NoBoard]
    /\ brdStart = brd
    /\ seqBrd = brd
    /\ applied = <<>>
    /\ computed = [w \in Workers |-> <<>>]
    /\ frames = <<>>
    /\ fnCall = NoCall
    /\ fnRet = 0

fnVars == <<fnCall, fnRet>>

histVars == <<applied, computed, frames>>

\* The Sender handles alive: tx until drop(tx), and the par_tx clone moved
\* into each closure until the closure has ended.
TxAlive == pc \in {"dispatch", "join"}

LiveSenders == {w \in Workers : wstate[w] \in {"spawned", "scanning"}}

Running == {w \in Workers : wstate[w] = "scanning"}

Panicked == {w \in Workers : wstate[w] = "panicked"}

\* The process is alive: main has neither returned nor panicked.
Alive == pc \in {"render", "dispatch", "join", "apply"}

\* Mutant: print_board is given data0, the array as loaded, not data1.
Render_data0 ==
    /\ pc = "render"
    /\ iter < NUM_ITERS
    /\ chan' = <<>>
    /\ frames' = Append(frames,
                    <<iter, IF frames = <<>> THEN brd ELSE frames[1][2]>>)
    /\ brdStart' = brd
    /\ applied' = <<>>
    /\ computed' = [w \in Workers |-> <<>>]
    /\ pc' = "dispatch"
    /\ UNCHANGED <<rows, cols, brd, extents, iter, handles, wstate, pending,
                   readers, snap, seqBrd, fnVars>>

\* Top of the loop body: a new channel, then print_board under a read guard
\* that is released at the end of the statement.
Render ==
    /\ pc = "render"
    /\ iter < NUM_ITERS
    /\ chan' = <<>>
    /\ frames' = Append(frames, <<iter, brd>>)
    /\ brdStart' = brd
    /\ applied' = <<>>
    /\ computed' = [w \in Workers |-> <<>>]
    /\ pc' = "dispatch"
    /\ UNCHANGED <<rows, cols, brd, extents, iter, handles, wstate, pending,
                   readers, snap, seqBrd, fnVars>>

\* One pass of `for &(r0, rl, c0, cl) in &extents`: clone data1 and tx, spawn
\* the thread, push its handle.
Spawn ==
    /\ pc = "dispatch"
    /\ LET w == Len(handles) + 1 IN
        /\ w <= Len(extents)
        /\ wstate' = [wstate EXCEPT ![w] = "spawned"]
        /\ handles' = Append(handles, w)
        /\ pc' = IF w = Len(extents) THEN "join" ELSE "dispatch"
    /\ UNCHANGED <<rows, cols, brd, extents, iter, pending, readers, chan,
                   snap, brdStart, seqBrd, fnVars, histVars>>

\* The schedules explored (see MaxRunning, MaxOvertaken).
MayStart(w) ==
    IF iter < MaxGen
    THEN /\ Cardinality({v \in Workers : v < w /\ wstate[v] = "spawned"})
                <= MaxOvertaken
         /\ Cardinality(Running) < MaxRunning
    ELSE /\ \A v \in Workers : v < w => wstate[v] # "spawned"
         /\ Running = {}

\* The closure starts: par_data.read().unwrap(), then capture_moves on the
\* board behind the guard.  The guard is a temporary of the `for` head and
\* lives until the loop over the moves ends.
WorkerScan(w) ==
    /\ Alive
    /\ wstate[w] = "spawned"
    /\ MayStart(w)
    /\ readers' = readers \cup {w}
    /\ snap' = [snap EXCEPT ![w] = brd]
    /\ LET moves == capture_moves(brd, rows, cols, extents[w][1],
                                  extents[w][2], extents[w][3], extents[w][4])
       IN  /\ pending' = [pending EXCEPT ![w] = moves]
           /\ computed' = [computed EXCEPT ![w] = moves]
    /\ wstate' = [wstate EXCEPT ![w] = "scanning"]
    /\ UNCHANGED <<rows, cols, brd, extents, iter, pc, handles, chan,
                   brdStart, seqBrd, fnVars, applied, frames>>

\* Mutant: a channel of capacity 1 and try_send, whose error is ignored: a
\* move sent while another is in the channel is lost.
WorkerSend_try(w) ==
    /\ Alive
    /\ wstate[w] = "scanning"
    /\ pending[w] # <<>>
    /\ chan' = IF chan = <<>> THEN <<Head(pending[w])>> ELSE chan
    /\ pending' = [pending EXCEPT ![w] = Tail(pending[w])]
    /\ UNCHANGED <<rows, cols, brd, extents, iter, pc, handles, wstate,
                   readers, snap, brdStart, seqBrd, fnVars, histVars>>

\* Mutant: a rendezvous channel (sync_channel(0)): send blocks until main
\* is receiving.
WorkerSend_rendezvous(w) ==
    /\ Alive
    /\ pc = "apply"
    /\ wstate[w] = "scanning"
    /\ pending[w] # <<>>
    /\ chan' = Append(chan, Head(pending[w]))
    /\ pending' = [pending EXCEPT ![w] = Tail(pending[w])]
    /\ UNCHANGED <<rows, cols, brd, extents, iter, pc, handles, wstate,
                   readers, snap, brdStart, seqBrd, fnVars, histVars>>

\* par_tx.send(mv).unwrap() for the next move; the channel is unbounded.
WorkerSend(w) ==
    /\ Alive
    /\ wstate[w] = "scanning"
    /\ pending[w] # <<>>
    /\ chan' = Append(chan, Head(pending[w]))
    /\ pending' = [pending EXCEPT ![w] = Tail(pending[w])]
    /\ UNCHANGED <<rows, cols, brd, extents, iter, pc, handles, wstate,
                   readers, snap, brdStart, seqBrd, fnVars, histVars>>

\* The loop over the moves ends: the read guard, par_tx and par_data drop.
WorkerEnd(w) ==
    /\ Alive
    /\ wstate[w] = "scanning"
    /\ pending[w] = <<>>
    /\ wstate' = [wstate EXCEPT ![w] = "done"]
    /\ readers' = readers \ {w}
    /\ UNCHANGED <<rows, cols, brd, extents, iter, pc, handles, pending, chan,
                   snap, brdStart, seqBrd, fnVars, histVars>>

\* The closure panics between two of its steps: unwinding drops the read
\* guard (a read guard does not poison the lock), the moves not yet sent and
\* par_tx; the moves already sent stay in the channel.
WorkerPanic(w) ==
    /\ Alive
    /\ wstate[w] = "scanning"
    /\ iter < MaxGen
    /\ Cardinality(Panicked) < MaxPanics
    /\ wstate' = [wstate EXCEPT ![w] = "panicked"]
    /\ pending' = [pending EXCEPT ![w] = <<>>]
    /\ readers' = readers \ {w}
    /\ UNCHANGED <<rows, cols, brd, extents, iter, pc, handles, chan, snap,
                   brdStart, seqBrd, fnVars, histVars>>

\* Mutant: the handle is popped and dropped, the thread is not waited for.
Join_nowait ==
    /\ pc = "join"
    /\ handles # <<>>
    /\ handles' = SubSeq(handles, 1, Len(handles) - 1)
    /\ pc' = "join"
    /\ UNCHANGED <<rows, cols, brd, extents, iter, wstate, pending, readers,
                   chan, snap, brdStart, seqBrd, fnVars, histVars>>

\* Mutant: the result of join() is discarded instead of unwrapped.
Join_ignore ==
    /\ pc = "join"
    /\ handles # <<>>
    /\ wstate[handles[Len(handles)]] \in {"done", "panicked"}
    /\ handles' = SubSeq(handles, 1, Len(handles) - 1)
    /\ pc' = "join"
    /\ UNCHANGED <<rows, cols, brd, extents, iter, wstate, pending, readers,
                   chan, snap, brdStart, seqBrd, fnVars, histVars>>

\* One pass of `while handles.len() > 0`: pop the last handle and join it;
\* unwrap() panics in main when the thread panicked.
Join ==
    /\ pc = "join"
    /\ handles # <<>>
    /\ LET h == handles[Len(handles)] IN
        /\ wstate[h] \in {"done", "panicked"}
        /\ handles' = SubSeq(handles, 1, Len(handles) - 1)
        /\ pc' = IF wstate[h] = "panicked" THEN "panicked" ELSE "join"
    /\ UNCHANGED <<rows, cols, brd, extents, iter, wstate, pending, readers,
                   chan, snap, brdStart, seqBrd, fnVars, histVars>>

\* The join loop has ended: drop(tx).
DropTx ==
    /\ pc = "join"
    /\ handles = <<>>
    /\ pc' = "apply"
    /\ UNCHANGED <<rows, cols, brd, extents, iter, handles, wstate, pending,
                   readers, chan, snap, brdStart, seqBrd, fnVars, histVars>>

\* Mutant: the move is stored at [[c, r]].
Apply_transposed ==
    /\ pc = "apply"
    /\ chan # <<>>
    /\ readers = {}
    /\ LET mv == Head(chan) IN
        brd' = [brd EXCEPT ![<<mv[2], mv[1]>>] = mv[3]]
    /\ chan' = Tail(chan)
    /\ applied' = Append(applied, Head(chan))
    /\ UNCHANGED <<rows, cols, extents, iter, pc, handles, wstate, pending,
                   readers, snap, brdStart, seqBrd, fnVars, frames, computed>>

\* Mutant: the channel is drained between the joins as well.
Apply_early ==
    /\ pc \in {"join", "apply"}
    /\ chan # <<>>
    /\ readers = {}
    /\ LET mv == Head(chan) IN
        brd' = [brd EXCEPT ![<<mv[1], mv[2]>>] = mv[3]]
    /\ chan' = Tail(chan)
    /\ applied' = Append(applied, Head(chan))
    /\ UNCHANGED <<rows, cols, extents, iter, pc, handles, wstate, pending,
                   readers, snap, brdStart, seqBrd, fnVars, frames, computed>>

\* Mutant: the move is stored in a fresh, all-dead board instead of data1.
Apply_fresh ==
    /\ pc = "apply"
    /\ chan # <<>>
    /\ readers = {}
    /\ LET mv == Head(chan) IN
        brd' = [[p \in DOMAIN brd |-> 0] EXCEPT ![<<mv[1], mv[2]>>] = mv[3]]
    /\ chan' = Tail(chan)
    /\ applied' = Append(applied, Head(chan))
    /\ UNCHANGED <<rows, cols, extents, iter, pc, handles, wstate, pending,
                   readers, snap, brdStart, seqBrd, fnVars, frames, computed>>

\* One pass of `for mv in &rx`: receive a move and store it under a write
\* guard, which waits until no read guard is held.
Apply ==
    /\ pc = "apply"
    /\ chan # <<>>
    /\ readers = {}
    /\ LET mv == Head(chan) IN
        brd' = [brd EXCEPT ![<<mv[1], mv[2]>>] = mv[3]]
    /\ chan' = Tail(chan)
    /\ applied' = Append(applied, Head(chan))
    /\ UNCHANGED <<rows, cols, extents, iter, pc, handles, wstate, pending,
                   readers, snap, brdStart, seqBrd, fnVars, frames, computed>>

\* Mutant: the receive loop is left after the moves of a single try_iter
\* pass or none: the next pass of `for iter` starts with moves unreceived.
EndGeneration_early ==
    /\ pc = "apply"
    /\ ~TxAlive
    /\ LiveSenders = {}
    /\ iter' = iter + 1
    /\ pc' = "render"
    /\ wstate' = [w \in Workers |-> "unspawned"]
    /\ snap' = [w \in Workers |-> NoBoard]
    /\ seqBrd' = LifeStep(seqBrd, rows, cols)
    /\ UNCHANGED <<rows, cols, brd, extents, handles, pending, readers, chan,
                   brdStart, fnVars, histVars>>

\* `for mv in &rx` ends: the channel is empty and every Sender is dropped.
\* The threads of this generation are gone; the next pass of the loop starts.
EndGeneration ==
    /\ pc = "apply"
    /\ chan = <<>>
    /\ ~TxAlive
    /\ LiveSenders = {}
    /\ iter' = iter + 1
    /\ pc' = "render"
    /\ wstate' = [w \in Workers |-> "unspawned"]
    /\ snap' = [w \in Workers |-> NoBoard]
    /\ seqBrd' = LifeStep(seqBrd, rows, cols)
    /\ UNCHANGED <<rows, cols, brd, extents, handles, pending, readers, chan,
                   brdStart, fnVars, histVars>>

\* `for iter in 0..50` is exhausted: main returns.
Finish ==
    /\ pc = "render"
    /\ iter = NUM_ITERS
    /\ pc' = "done"
    /\ UNCHANGED <<rows, cols, brd, extents, iter, handles, wstate, pending,
                   readers, chan, snap, brdStart, seqBrd, fnVars, histVars>>

Next ==
    \/ Render
    \/ Spawn
    \/ \E w \in Workers : WorkerScan(w)
    \/ \E w \in Workers : WorkerSend(w)
    \/ \E w \in Workers : WorkerEnd(w)
    \/ \E w \in Workers : WorkerPanic(w)
    \/ Join
    \/ DropTx
    \/ Apply
    \/ EndGeneration
    \/ Finish

Spec == Init /\ [][Next]_vars

\* The steps of the main thread and of the thread of worker w.
MainStep ==
    Render \/ Spawn \/ Join \/ DropTx \/ Apply \/ EndGeneration \/ Finish

WorkerStep(w) == WorkerScan(w) \/ WorkerSend(w) \/ WorkerEnd(w)

\* SpecFair: the run in which no worker thread fails and the scheduler is
\* fair.  Fair scheduling of every thread implies weak fairness of the step
\* relation as a whole (if nothing happens for ever, the thread that can
\* take a step can take it for ever), which is all that is assumed here.
NextFair == MainStep \/ \E w \in Workers : WorkerStep(w)

Fairness == WF_vars(NextFair)

\* The run starts on the second board of InitBoards: its workers send three
\* moves in the first generation, two in the second, none afterwards.
InitFair ==
    /\ Init
    /\ brd = BoardOf(3, 3, {<<1, 2>>, <<2, 0>>, <<2, 1>>})

SpecFair == InitFair /\ [][NextFair]_vars /\ Fairness

---------------------------------------------------------------------------
(* C1 -- for every initial board, every interleaving of the worker threads *)
(* and every order in which their moves reach the channel, the board held  *)
(* by main after each generation k is the board obtained by applying the   *)
(* rule sequentially to the whole board k times.                           *)
C1_Determinism == pc = "render" => brd = seqBrd

\* Two generations completed, the second of which changed the board.
C1_Witness ==
    /\ pc = "render"
    /\ iter >= 2
    /\ brd # brdStart
    /\ brd = seqBrd

---------------------------------------------------------------------------
Unfinished == {w \in Workers : wstate[w] \in {"spawned", "scanning"}}

(* C8 -- in every generation the board is written only after every worker  *)
(* thread dispatched in it has finished its scan and sent all its moves:   *)
(* while main is in the loop that receives and writes the moves, no worker *)
(* is still running, none has a move left to send and no read guard is     *)
(* held.                                                                   *)
C8_ForkJoinBarrier ==
    pc = "apply" =>
        /\ \A w \in Workers : wstate[w] = "done" /\ pending[w] = <<>>
        /\ readers = {}
        /\ handles = <<>>

\* In the middle of the writes of a generation: one done, more to come.
C8_Witness ==
    /\ pc = "apply"
    /\ brd # brdStart
    /\ chan # <<>>
    /\ \A w \in Workers : wstate[w] = "done"

---------------------------------------------------------------------------
(* C9 -- in every generation all workers scan the same board, the one the  *)
(* generation started with, and that board stays unmodified from the       *)
(* dispatch of the first worker until the last worker has finished; no     *)
(* step of a worker changes the board.                                     *)
C9_SharedSnapshot ==
    /\ \A w \in Workers :
        wstate[w] \in {"scanning", "done", "panicked"} => snap[w] = brdStart
    /\ (pc \in {"dispatch", "join"} \/ Unfinished # {}) => brd = brdStart

\* Two workers hold a read guard at once, in a generation after the first,
\* while moves of this generation are already in the channel.
C9_Witness ==
    /\ Cardinality(readers) >= 2
    /\ iter >= 1
    /\ chan # <<>>
    /\ \A w \in readers : snap[w] = brd

---------------------------------------------------------------------------
(* C10 -- if a worker of a generation panics at any point of its closure,  *)
(* also after it has sent some of its moves, the run stops without         *)
(* applying any move of that generation: main never reaches the loop that  *)
(* writes the moves, and the board stays the one the generation started    *)
(* with.                                                                   *)
C10_FailureAppliesNothing ==
    (Panicked # {} \/ pc = "panicked") =>
        /\ pc \in {"dispatch", "join", "panicked"}
        /\ brd = brdStart

\* main has panicked on the join of a worker that had sent the first of its
\* two moves and not the second.
C10_Witness ==
    /\ pc = "panicked"
    /\ brd = brdStart
    /\ \E w \in Panicked :
        LET all == capture_moves(snap[w], rows, cols, extents[w][1],
                                 extents[w][2], extents[w][3], extents[w][4])
        IN  /\ Len(all) >= 2
            /\ all[1] \in SeqToSet(chan)
            /\ all[2] \notin SeqToSet(chan)

---------------------------------------------------------------------------
(* C2 -- as stated: for every binary grid (rows >= 2, cols >= 2) and every *)
(* sub-region inside it, every change (r, c, v) returned by capture_moves  *)
(* has v # grid[r][c].                                                     *)
C2_EveryMoveChangesItsCell ==
    (CaptureCalled /\ IsBinary(brd)) =>
        \A i \in 1 .. Len(fnRet) :
            fnRet[i][3] # brd[<<fnRet[i][1], fnRet[i][2]>>]

(* C2 -- amended: every change (r, c, v) returned by capture_moves either  *)
(* has v # grid[r][c], or names a live cell with exactly 3 live neighbours *)
(* and has v = 1; a live cell with 2 live neighbours and a dead cell with  *)
(* a count other than 3 produce no entry, and a live cell with 3 live      *)
(* neighbours produces the entry (r, c, 1).                                *)
C2_MovesChangeOrRestateLiveThree ==
    (CaptureCalled /\ IsBinary(brd)) =>
        /\ \A i \in 1 .. Len(fnRet) :
            LET p == <<fnRet[i][1], fnRet[i][2]>> IN
            \/ fnRet[i][3] # brd[p]
            \/ brd[p] = 1 /\ fnRet[i][3] = 1 /\ LiveAround(p) = 3
        /\ \A p \in CalledRegion :
            /\ (\/ brd[p] = 1 /\ LiveAround(p) = 2
                \/ brd[p] = 0 /\ LiveAround(p) # 3)
               => \A i \in 1 .. Len(fnRet) : <<fnRet[i][1], fnRet[i][2]>> # p
            /\ (brd[p] = 1 /\ LiveAround(p) = 3)
               => <<p[1], p[2], 1>> \in SeqToSet(fnRet)

\* The doc test of capture_moves: (1, 0) is alive with 3 live neighbours.
DocBoard ==
    [p \in Cells(3, 3) |->
        IF p \in {<<0, 1>>, <<1, 0>>, <<1, 1>>, <<1, 2>>, <<2, 0>>} THEN 1 ELSE 0]

C2_Witness ==
    /\ CaptureCalled
    /\ brd = DocBoard
    /\ fnCall.start_row = 0 /\ fnCall.stop_row = 2
    /\ fnCall.start_col = 0 /\ fnCall.stop_col = 1
    /\ fnRet = << <<0, 0, 1>>, <<1, 0, 1>> >>

---------------------------------------------------------------------------
\* brd holds exactly one 2 x 2 block of live cells, with top-left (r0, c0).
IsBlockAt(r0, c0) ==
    /\ r0 + 1 < rows
    /\ c0 + 1 < cols
    /\ \A p \in Cells(rows, cols) :
        brd[p] = IF p[1] \in {r0, r0 + 1} /\ p[2] \in {c0, c0 + 1} THEN 1 ELSE 0

BlockCovered(r0, c0) ==
    /\ IsBlockAt(r0, c0)
    /\ {r0, r0 + 1} \X {c0, c0 + 1} \subseteq CalledRegion

(* C3 -- as stated: for a grid whose only live cells form a 2 x 2 block,   *)
(* capture_moves over any region covering the block returns an empty list. *)
C3_BlockScanIsEmpty ==
    CaptureCalled =>
        \A r0 \in 0 .. rows - 1, c0 \in 0 .. cols - 1 :
            BlockCovered(r0, c0) => fnRet = <<>>

(* C3 -- amended: for a grid whose only live cells form a 2 x 2 block,     *)
(* capture_moves over any region covering the block returns exactly the    *)
(* four entries (r, c, 1) of the block's own cells, in row-major order     *)
(* (each has 3 live neighbours); no entry changes the value of its cell,   *)
(* so writing the list over the grid leaves the grid as it was.            *)
C3_BlockScanRestatesBlock ==
    CaptureCalled =>
        \A r0 \in 0 .. rows - 1, c0 \in 0 .. cols - 1 :
            BlockCovered(r0, c0) =>
                /\ fnRet = << <<r0, c0, 1>>, <<r0, c0 + 1, 1>>,
                              <<r0 + 1, c0, 1>>, <<r0 + 1, c0 + 1, 1>> >>
                /\ Overwrite(brd, fnRet) = brd

\* The block in the middle of a 4 x 4 board: all its neighbours are cells.
C3_Witness ==
    /\ CaptureCalled
    /\ rows = 4 /\ cols = 4
    /\ BlockCovered(1, 1)
    /\ CalledRegion = Cells(4, 4)
    /\ Len(fnRet) = 4

---------------------------------------------------------------------------
\* Row-major position of a move inside the board.
RowMajor(mv) == mv[1] * cols + mv[2]

(* C4 -- for every binary grid with rows >= 2 and cols >= 2 and every      *)
(* half-open region inside it, capture_moves names only cells of the       *)
(* region, at most once each, in row-major order, and writing the named    *)
(* cells' new values over the grid gives, for every cell of the region,    *)
(* the B3/S23 successor computed from the unmodified grid.                 *)
C4_ScanGivesSuccessor ==
    (CaptureCalled /\ IsBinary(brd)) =>
        /\ \A i \in 1 .. Len(fnRet) :
            <<fnRet[i][1], fnRet[i][2]>> \in CalledRegion
        /\ \A i, j \in 1 .. Len(fnRet) :
            i < j => RowMajor(fnRet[i]) < RowMajor(fnRet[j])
        /\ \A p \in CalledRegion :
            Overwrite(brd, fnRet)[p] = LifeCell(brd, rows, cols, p)

\* A scan that reports a death and a birth and passes over a survivor.
C4_Witness ==
    /\ CaptureCalled
    /\ IsBinary(brd)
    /\ \E i, j \in 1 .. Len(fnRet) :
        /\ fnRet[i][3] = 0 /\ brd[<<fnRet[i][1], fnRet[i][2]>>] = 1
        /\ fnRet[j][3] = 1 /\ brd[<<fnRet[j][1], fnRet[j][2]>>] = 0
    /\ \E p \in CalledRegion : brd[p] = 1 /\ LiveAround(p) = 2

---------------------------------------------------------------------------
IsCorner(r, c) == r \in {0, rows - 1} /\ c \in {0, cols - 1}

IsEdge(r, c) == (r \in {0, rows - 1} \/ c \in {0, cols - 1}) /\ ~IsCorner(r, c)

(* C5 -- for every grid with rows >= 2 and cols >= 2 and every cell        *)
(* (r, c), count_neighbors returns the sum of the values at exactly those  *)
(* of the 8 positions around (r, c) that lie inside the grid: each counted *)
(* once, the cell itself never, no position outside the grid read; 3       *)
(* positions at a corner, 5 on a non-corner edge, 8 in the interior.       *)
C5_NeighborSum ==
    fnCall.op = "count_neighbors" =>
        LET r == fnCall.r
            c == fnCall.c
            reads == fnCall.reads
        IN  /\ NoDuplicates(reads)
            /\ SeqToSet(reads) = Neighbourhood(rows, cols, r, c)
            /\ <<r, c>> \notin SeqToSet(reads)
            /\ SeqToSet(reads) \subseteq Cells(rows, cols)
            /\ fnRet = SumOver(brd, Neighbourhood(rows, cols, r, c))
            /\ IsCorner(r, c) => Len(reads) = 3
            /\ IsEdge(r, c) => Len(reads) = 5
            /\ (~IsCorner(r, c) /\ ~IsEdge(r, c)) => Len(reads) = 8

\* The doc test of count_neighbors at the interior cell: 32.
C5_Witness ==
    /\ fnCall.op = "count_neighbors"
    /\ brd = WeightBoard
    /\ fnCall.r = 1 /\ fnCall.c = 1
    /\ Len(fnCall.reads) = 8
    /\ fnRet = 32

---------------------------------------------------------------------------
RECURSIVE SeqSum(_)
SeqSum(q) == IF q = <<>> THEN 0 ELSE q[1] + SeqSum(Tail(q))

RectCells(e) == RegionCells(e[1], e[2], e[3], e[4])

(* C6 -- for every rows >= 3 and cols >= 3 the sub-regions returned by     *)
(* get_subgrids are 9 half-open rectangles with rowStart < rowStop and     *)
(* colStart < colStop such that every cell of the grid lies in exactly one *)
(* of them, and no rectangle reaches outside the grid.                     *)
C6_PartitionCoverage ==
    (/\ fnCall.op = "get_subgrids"
     /\ fnCall.rows >= NUM_ROW_GROUPS
     /\ fnCall.cols >= NUM_COL_GROUPS) =>
        /\ Len(fnRet) = NUM_ROW_GROUPS * NUM_COL_GROUPS
        /\ \A i \in 1 .. Len(fnRet) :
            /\ fnRet[i][1] < fnRet[i][2]
            /\ fnRet[i][3] < fnRet[i][4]
            /\ RectCells(fnRet[i]) \subseteq Cells(fnCall.rows, fnCall.cols)
        /\ \A p \in Cells(fnCall.rows, fnCall.cols) :
            Cardinality({i \in 1 .. Len(fnRet) : p \in RectCells(fnRet[i])}) = 1

\* The doc test of get_subgrids.
C6_Witness ==
    /\ fnCall.op = "get_subgrids"
    /\ fnCall.rows = 15 /\ fnCall.cols = 7
    /\ fnRet = << <<0, 5, 0, 3>>, <<0, 5, 3, 5>>, <<0, 5, 5, 7>>,
                  <<5, 10, 0, 3>>, <<5, 10, 3, 5>>, <<5, 10, 5, 7>>,
                  <<10, 15, 0, 3>>, <<10, 15, 3, 5>>, <<10, 15, 5, 7>> >>

(* C7 -- for every num >= 0 and num_groups >= 1, get_groups returns        *)
(* exactly num_groups sizes that sum to num; the first (num mod            *)
(* num_groups) equal floor(num / num_groups) + 1 and the rest equal        *)
(* floor(num / num_groups); so the sizes never increase and differ by at   *)
(* most 1.                                                                 *)
C7_GroupBalance ==
    fnCall.op = "get_groups" =>
        LET n == fnCall.num
            g == fnCall.num_groups
        IN  /\ Len(fnRet) = g
            /\ SeqSum(fnRet) = n
            /\ \A i \in 1 .. Len(fnRet) :
                fnRet[i] = IF i <= n % g THEN (n \div g) + 1 ELSE n \div g
            /\ \A i \in 1 .. Len(fnRet) - 1 : fnRet[i] >= fnRet[i + 1]
            /\ \A i, j \in 1 .. Len(fnRet) : fnRet[i] - fnRet[j] <= 1

\* The doc test get_groups(20, 6).
C7_Witness ==
    /\ fnCall.op = "get_groups"
    /\ fnCall.num = 20 /\ fnCall.num_groups = 6
    /\ fnRet = <<4, 4, 3, 3, 3, 3>>

---------------------------------------------------------------------------
\* get_subgrids was called with fewer rows than row groups, fewer columns
\* than column groups, or a dimension of zero.
BadConfigCall ==
    /\ fnCall.op = "get_subgrids"
    /\ (fnCall.rows < NUM_ROW_GROUPS \/ fnCall.cols < NUM_COL_GROUPS)

(* C11 -- when the group count exceeds the dimension (rows < rowGroups or  *)
(* cols < colGroups) or a dimension is zero, the partitioning step         *)
(* produces no sub-region list: in particular it returns no sub-region     *)
(* with rowStart = rowStop or colStart = colStop, so there is no region to *)
(* dispatch a worker for.                                                  *)
C11_BadConfigGivesNoSubgrids ==
    BadConfigCall =>
        /\ fnRet = <<>>
        /\ \A i \in 1 .. Len(fnRet) :
            fnRet[i][1] < fnRet[i][2] /\ fnRet[i][3] < fnRet[i][4]

---------------------------------------------------------------------------
(* utils.rs: count_neighbors as the build executes it, for grids on which  *)
(* its arithmetic can leave the grid.  The coordinates are usize: a        *)
(* negative number n in pos_arr stands for the subtraction that went below *)
(* zero, which panics in a debug build and wraps to 2^64 + n, a position   *)
(* outside every grid, in a release build.                                 *)

\* SpecLine: grids of a single row or a single column of 1..MaxLine cells.
MaxLine == 4

Builds == {"debug", "release"}

\* Some subtraction of the position array went below zero.
pos_underflows(pa) == \E i \in 1 .. Len(pa) : pa[i][1] < 0 \/ pa[i][2] < 0

\* The index of the first position of pa that is outside the grid, or 0.
first_outside(pa, nrows, ncols) ==
    IF \A i \in 1 .. Len(pa) : pa[i] \in Cells(nrows, ncols) THEN 0
    ELSE CHOOSE i \in 1 .. Len(pa) :
            /\ pa[i] \notin Cells(nrows, ncols)
            /\ \A j \in 1 .. i - 1 : pa[j] \in Cells(nrows, ncols)

\* The index of the first position of pa at which `ret += brd[[r0, c0]]`
\* leaves the range of u8, or 0; every position of pa is inside the grid.
first_overflow(b, pa) ==
    LET Over(i) ==
            gather_board_values(b, SubSeq(pa, 1, i - 1)) + b[pa[i]] >= U8
    IN  IF \A i \in 1 .. Len(pa) : ~Over(i) THEN 0
        ELSE CHOOSE i \in 1 .. Len(pa) :
                Over(i) /\ \A j \in 1 .. i - 1 : ~Over(j)

\* What a call of count_neighbors does: the array literal is evaluated
\* first (all its subtractions), then gather_board_values indexes the board
\* position by position; brd[[r0, c0]] panics outside the grid, and the
\* addition to the u8 accumulator panics in a debug build and wraps in a
\* release build when the sum leaves 0 .. 255.
count_neighbors_run(b, nrows, ncols, r, c, build) ==
    LET pa == pos_arr(nrows, ncols, r, c)
        k  == first_outside(pa, nrows, ncols)
    IN  IF build = "debug" /\ pos_underflows(pa)
        THEN [panic |-> "attempt to subtract with overflow",
              underflow |-> TRUE, overflow |-> FALSE,
              indexed |-> <<>>, ret |-> 0]
        ELSE IF k # 0
        THEN [panic |-> "index out of bounds",
              underflow |-> pos_underflows(pa), overflow |-> FALSE,
              indexed |-> SubSeq(pa, 1, k), ret |-> 0]
        ELSE LET o == first_overflow(b, pa) IN
             IF build = "debug" /\ o # 0
             THEN [panic |-> "attempt to add with overflow",
                   underflow |-> FALSE, overflow |-> TRUE,
                   indexed |-> SubSeq(pa, 1, o), ret |-> 0]
             ELSE [panic |-> "none", underflow |-> FALSE,
                   overflow |-> o # 0, indexed |-> pa,
                   ret |-> gather_board_values(b, pa)]

LineDims ==
    {d \in (1 .. MaxLine) \X (1 .. MaxLine) : d[1] = 1 \/ d[2] = 1}

InitLine ==
    /\ \E d \in LineDims :
        /\ rows = d[1]
        /\ cols = d[2]
        /\ brd \in BinaryBoards(d[1], d[2])
    /\ MainIdle
    /\ fnCall = NoCall
    /\ fnRet = 0

CallCountNeighborsRun ==
    /\ pc = "fn"
    /\ fnCall = NoCall
    /\ \E r \in 0 .. rows - 1, c \in 0 .. cols - 1, build \in Builds :
        /\ fnCall' = [op |-> "count_neighbors_run", r |-> r, c |-> c,
                      build |-> build]
        /\ fnRet' = count_neighbors_run(brd, rows, cols, r, c, build)
    /\ UNCHANGED <<rows, cols, brd, mainVars>>

NextLine == CallCountNeighborsRun

SpecLine == InitLine /\ [][NextLine]_vars

(* C12 -- for every grid with rows = 1 or cols = 1 and every cell in it,   *)
(* count_neighbors performs no subtraction that goes below zero, indexes   *)
(* no position outside [0, rows) x [0, cols), and indexes no position      *)
(* twice.                                                                  *)
C12_DegenerateGridIsSafe ==
    (fnCall.op = "count_neighbors_run" /\ (rows = 1 \/ cols = 1)) =>
        /\ ~fnRet.underflow
        /\ SeqToSet(fnRet.indexed) \subseteq Cells(rows, cols)
        /\ NoDuplicates(fnRet.indexed)

---------------------------------------------------------------------------
\* count_neighbors was called at the last cell, (rows - 1, cols - 1), of a
\* board whose only live cell is (0, 0).
FarCornerCall ==
    /\ fnCall.op = "count_neighbors"
    /\ brd = BoardOf(rows, cols, {<<0, 0>>})
    /\ fnCall.r = rows - 1
    /\ fnCall.c = cols - 1

(* C13 -- as stated: for every grid with rows >= 2 and cols >= 2 whose     *)
(* only live cell is (0, 0), count_neighbors at (rows - 1, cols - 1) never *)
(* counts cell (0, 0): it returns 0.                                       *)
C13_FarCornerCountsZero ==
    FarCornerCall =>
        /\ <<0, 0>> \notin SeqToSet(fnCall.reads)
        /\ fnRet = 0

(* C13 -- amended: for every grid with rows >= 2 and cols >= 2, other than *)
(* the 2 x 2 grid, whose only live cell is (0, 0), count_neighbors at      *)
(* (rows - 1, cols - 1) does not count cell (0, 0) and returns 0; on the   *)
(* 2 x 2 grid, where (0, 0) is diagonally adjacent to (1, 1), it counts    *)
(* (0, 0) once and returns 1.                                              *)
C13_NoWraparound ==
    FarCornerCall =>
        IF rows = 2 /\ cols = 2
        THEN /\ Cardinality({i \in 1 .. Len(fnCall.reads) :
                                fnCall.reads[i] = <<0, 0>>}) = 1
             /\ fnRet = 1
        ELSE /\ <<0, 0>> \notin SeqToSet(fnCall.reads)
             /\ fnRet = 0

\* The far corner of a 3 x 3 board: two cells away from (0, 0) both ways.
C13_Witness ==
    /\ FarCornerCall
    /\ rows = 3 /\ cols = 3
    /\ fnCall.reads = << <<1, 2>>, <<1, 1>>, <<2, 1>> >>
    /\ fnRet = 0

---------------------------------------------------------------------------
\* The moves main has received in this generation, in the order received,
\* followed by those sent and still in the channel.
Collected == applied \o chan

\* The worker whose sub-grid holds cell p.
OwnerOf(p) == CHOOSE w \in 1 .. Len(extents) : p \in RectCells(extents[w])

(* C14 -- within one generation no two moves that reach the channel name   *)
(* the same cell, be they sent by two workers or by one, whatever the      *)
(* board and the order of arrival.                                         *)
C14_DisjointOutputs ==
    \A i, j \in 1 .. Len(Collected) :
        (Collected[i][1] = Collected[j][1] /\ Collected[i][2] = Collected[j][2])
            => i = j

\* Main is receiving, with one move stored and more to come; the moves of
\* the generation came from two workers, two of them from the same worker.
C14_Witness ==
    /\ pc = "apply"
    /\ applied # <<>>
    /\ chan # <<>>
    /\ \E i, j, k \in 1 .. Len(Collected) :
        LET ci == <<Collected[i][1], Collected[i][2]>>
            cj == <<Collected[j][1], Collected[j][2]>>
            ck == <<Collected[k][1], Collected[k][2]>>
        IN  /\ i # j
            /\ OwnerOf(ci) = OwnerOf(cj)
            /\ OwnerOf(ci) # OwnerOf(ck)

---------------------------------------------------------------------------
\* How many times move m occurs in list q.
Count(q, m) == Cardinality({i \in 1 .. Len(q) : q[i] = m})

\* p and q hold the same moves, each the same number of times.
SameBag(p, q) ==
    \A m \in SeqToSet(p) \cup SeqToSet(q) : Count(p, m) = Count(q, m)

SubBag(p, q) == \A m \in SeqToSet(p) : Count(p, m) <= Count(q, m)

\* The lists capture_moves returned to the workers 1 .. n of this
\* generation, one after the other.
RECURSIVE ComputedByFirst(_)
ComputedByFirst(n) ==
    IF n = 0 THEN <<>> ELSE ComputedByFirst(n - 1) \o computed[n]

\* What the workers of this generation have computed.
GenMoves == ComputedByFirst(Len(extents))

(* C15 -- in every generation whose workers all succeed, the moves stored  *)
(* in the board are, as a multiset, the moves the workers of that          *)
(* generation computed: when main starts to receive, every one of them is  *)
(* in the channel; each is received and stored exactly once; at the end of *)
(* the generation the channel is empty, so none is carried over; and no    *)
(* move of another generation is ever received.                            *)
C15_CompleteAggregation ==
    /\ pc \in {"dispatch", "join", "apply"} => SubBag(Collected, GenMoves)
    /\ pc = "apply" =>
            /\ SameBag(Collected, GenMoves)
            /\ \A w \in 1 .. Len(extents) :
                computed[w] = capture_moves(brdStart, rows, cols,
                                  extents[w][1], extents[w][2],
                                  extents[w][3], extents[w][4])
    /\ (pc \in {"render", "done"} /\ iter > 0) =>
            /\ chan = <<>>
            /\ SameBag(applied, GenMoves)
            /\ brd = Overwrite(brdStart, applied)

\* A generation is over; its three moves came from three workers and were
\* received in another order than the workers were spawned in.
C15_Witness ==
    /\ pc = "render"
    /\ iter > 0
    /\ Len(applied) >= 3
    /\ SameBag(applied, GenMoves)
    /\ \E i, j \in 1 .. Len(applied) :
        /\ i < j
        /\ OwnerOf(<<applied[i][1], applied[i][2]>>)
               > OwnerOf(<<applied[j][1], applied[j][2]>>)

---------------------------------------------------------------------------
(* C16 -- generations are strictly sequential: a worker thread is spawned  *)
(* or reads the board only while main is between the render and the drop   *)
(* of its sender (or has panicked), at which time the board is the fully   *)
(* applied board of the `iter` generations before and no move of an        *)
(* earlier generation waits in the channel; every worker scans that board; *)
(* and the sub-grids handed to the workers are the same in every           *)
(* generation.                                                             *)
C16_SequentialGenerations ==
    /\ extents = main_extents(rows, cols)
    /\ Unfinished # {} =>
        /\ pc \in {"dispatch", "join", "panicked"}
        /\ brd = seqBrd
        /\ SubBag(chan, GenMoves)
    /\ \A w \in Workers :
        wstate[w] \in {"scanning", "done"} => snap[w] = seqBrd
    /\ readers # {} => brd = seqBrd

\* In the second generation a worker scans the board the first generation
\* produced, which differs from the initial board, while another worker of
\* the second generation has not started yet.
C16_Witness ==
    /\ iter = 1
    /\ frames # <<>>
    /\ brd # frames[1][2]
    /\ \E w, v \in Workers :
        /\ wstate[w] = "scanning"
        /\ w \in readers
        /\ snap[w] = brd
        /\ wstate[v] = "spawned"

---------------------------------------------------------------------------
\* The moves of the main thread between the phases of a generation:
\* render, Dispatch, AwaitAll (join), Apply, and back to the loop head (Done).
PhaseOrder ==
    { <<"render", "dispatch">>, <<"dispatch", "join">>, <<"join", "apply">>,
      <<"apply", "render">>, <<"render", "done">> }

(* C17 -- on a valid binary board (rows, cols >= 3), when no worker fails  *)
(* and every thread is scheduled fairly, the main thread moves between the *)
(* phases of a generation only in their order (dispatch, join,             *)
(* receive-and-store, loop head), the generation counter grows only by one *)
(* and only at the end of the receive loop, and main returns eventually,   *)
(* after exactly NUM_ITERS = 50 generations.  Nothing moves main out of    *)
(* "done" or changes the counter there, so main never returns with another *)
(* count; and returning takes 50 passes through every phase: no worker     *)
(* blocks forever on send, the join loop and the receive loop end in every *)
(* generation.                                                             *)
C17_BoundedRun ==
    /\ [][/\ pc' # pc => <<pc, pc'>> \in PhaseOrder
          /\ iter' # iter => (pc = "apply" /\ pc' = "render" /\ iter' = iter + 1)
         ]_vars
    /\ <>(pc = "done" /\ iter = NUM_ITERS /\ Len(frames) = NUM_ITERS)

\* Main has returned after 50 generations, the first two of which changed
\* the board.
C17_Witness ==
    /\ pc = "done"
    /\ iter = NUM_ITERS
    /\ Len(frames) = NUM_ITERS
    /\ frames[1][2] # frames[2][2]
    /\ frames[2][2] # frames[3][2]

---------------------------------------------------------------------------
\* The cells named by the moves main has received in this generation.
AppliedCells == {<<applied[i][1], applied[i][2]>> : i \in 1 .. Len(applied)}

(* C18 -- the receive loop sets each cell named by a move it has received  *)
(* to that move's value and leaves every cell not named by a received move *)
(* at the value it had when the generation started; the board keeps its    *)
(* rows x cols cells.                                                      *)
C18_ApplyFrame ==
    /\ DOMAIN brd = Cells(rows, cols)
    /\ DOMAIN brd = DOMAIN brdStart
    /\ \A i \in 1 .. Len(applied) :
        brd[<<applied[i][1], applied[i][2]>>] = applied[i][3]
    /\ \A p \in Cells(rows, cols) \ AppliedCells : brd[p] = brdStart[p]

\* A generation has been stored: one move changed its cell, one restated a
\* live cell, and a live cell that no move named is still alive.
C18_Witness ==
    /\ pc = "render"
    /\ iter = 1
    /\ \E i, j \in 1 .. Len(applied) :
        /\ brdStart[<<applied[i][1], applied[i][2]>>] # applied[i][3]
        /\ brdStart[<<applied[j][1], applied[j][2]>>] = applied[j][3]
    /\ \E p \in Cells(rows, cols) \ AppliedCells : brd[p] = 1

---------------------------------------------------------------------------
(* C19 -- started on a board whose cells are all 0 or 1, the run keeps     *)
(* every cell of the board at 0 or 1 in every state, after any number of   *)
(* generations and between two stores of the receive loop, and the board   *)
(* keeps the rows x cols cells of the board first rendered.                *)
C19_BinaryGrid ==
    /\ IsBinary(brd)
    /\ DOMAIN brd = Cells(rows, cols)
    /\ frames # <<>> => DOMAIN frames[1][2] = Cells(rows, cols)

\* In the second generation, between two stores of the receive loop.
C19_Witness ==
    /\ pc = "apply"
    /\ iter = 1
    /\ applied # <<>>
    /\ chan # <<>>
    /\ brd # brdStart
    /\ \E p, q \in Cells(rows, cols) : brd[p] = 0 /\ brd[q] = 1

---------------------------------------------------------------------------
\* The frame printed last.
LastFrame == frames[Len(frames)]

(* C20 -- the frame printed with index k shows the board after exactly k   *)
(* completed generations (the rule applied k times to the initial board);  *)
(* frames are printed only at the loop head, when no worker thread exists, *)
(* no read guard is held and no move waits to be stored, so no frame shows *)
(* a partially stored generation; a printed frame is never changed; and    *)
(* when main returns, 50 frames with the indices 0..49 have been printed:  *)
(* the board of the 50th generation is in no frame of its own.             *)
C20_RenderingOrder ==
    /\ [](/\ pc = "render" =>
                /\ Unfinished = {}
                /\ readers = {}
                /\ chan = <<>>
                /\ Len(frames) = iter
          /\ pc \in {"dispatch", "join", "apply", "panicked"} =>
                /\ Len(frames) = iter + 1
                /\ LastFrame = <<iter, seqBrd>>
          /\ pc = "done" =>
                /\ iter = NUM_ITERS
                /\ Len(frames) = NUM_ITERS
                /\ LastFrame[1] = NUM_ITERS - 1
                /\ seqBrd = LifeStep(LastFrame[2], rows, cols)
                /\ brd = seqBrd)
    /\ [][/\ Len(frames') >= Len(frames)
          /\ SubSeq(frames', 1, Len(frames)) = frames]_vars

\* Main has returned; the frames 0, 1 and 2 show three different boards.
C20_Witness ==
    /\ pc = "done"
    /\ Len(frames) = NUM_ITERS
    /\ frames[1][2] # frames[2][2]
    /\ frames[2][2] # frames[3][2]
    /\ frames[1][2] # frames[3][2]
    /\ frames[3] = <<2, LifeStep(LifeStep(frames[1][2], rows, cols), rows, cols)>>

---------------------------------------------------------------------------
(* SpecU8: count_neighbors, as the build executes it, on every binary      *)
(* board of FnDims, on the weighted board of the doc test, and on boards   *)
(* whose cells all hold the same value of 0 .. 255.                        *)

\* SpecU8: the uniform boards have 2 .. MaxUniformSide rows and columns.
MaxUniformSide == 3

UniformBoard(nr, nc, v) == [p \in Cells(nr, nc) |-> v]

InitU8 ==
    /\ \/ \E d \in FnDims :
            /\ rows = d[1]
            /\ cols = d[2]
            /\ brd \in BinaryBoards(d[1], d[2])
       \/ /\ rows = 3
          /\ cols = 3
          /\ brd = WeightBoard
       \/ \E nr \in 2 .. MaxUniformSide, nc \in 2 .. MaxUniformSide,
             v \in 0 .. U8 - 1 :
            /\ rows = nr
            /\ cols = nc
            /\ brd = UniformBoard(nr, nc, v)
    /\ MainIdle
    /\ fnCall = NoCall
    /\ fnRet = 0

SpecU8 == InitU8 /\ [][NextLine]_vars

\* count_neighbors_run was called at cell (fnCall.r, fnCall.c) of brd.
RunCalled == fnCall.op = "count_neighbors_run"

\* The sum of the neighbours of the cell called, in unbounded arithmetic.
ExactSum == SumOver(brd, Neighbourhood(rows, cols, fnCall.r, fnCall.c))

(* C21 -- for every binary grid with rows >= 2 and cols >= 2 the 8-bit sum *)
(* built by gather_board_values inside count_neighbors never leaves the    *)
(* range of u8: the call returns the exact sum, which is in 0 .. 8, at     *)
(* most 3 at a corner and at most 5 on a non-corner edge.  With other u8   *)
(* cell values the accumulator overflows exactly when the exact sum is     *)
(* above 255: a debug build then panics on the addition and a release      *)
(* build returns the sum modulo 2^8.  The weighted 3 x 3 grid of the doc   *)
(* test itself stays below (its largest sum is 32).                        *)
C21_AccumulatorRange ==
    RunCalled =>
        /\ IsBinary(brd) =>
            /\ ~fnRet.overflow
            /\ fnRet.panic = "none"
            /\ fnRet.ret = ExactSum
            /\ fnRet.ret \in 0 .. 8
            /\ IsCorner(fnCall.r, fnCall.c) => fnRet.ret <= 3
            /\ IsEdge(fnCall.r, fnCall.c) => fnRet.ret <= 5
        /\ fnRet.overflow <=> ExactSum > U8 - 1
        /\ ~fnRet.overflow => (fnRet.panic = "none" /\ fnRet.ret = ExactSum)
        /\ (fnRet.overflow /\ fnCall.build = "debug") =>
                fnRet.panic = "attempt to add with overflow"
        /\ (fnRet.overflow /\ fnCall.build = "release") =>
            /\ fnRet.panic = "none"
            /\ fnRet.ret = ExactSum % U8
            /\ fnRet.ret # ExactSum
        /\ brd = WeightBoard => (~fnRet.overflow /\ fnRet.ret <= 32)

\* The 3 x 3 board of cells 32, at its interior cell, in a release build:
\* the exact sum is 8 * 32 = 256 and the call returns 0.
C21_Witness ==
    /\ RunCalled
    /\ brd = UniformBoard(3, 3, 32)
    /\ fnCall.r = 1 /\ fnCall.c = 1
    /\ fnCall.build = "release"
    /\ ExactSum = 256
    /\ fnRet.overflow
    /\ fnRet.ret = 0

===========================================================================
